---- MODULE Spec2Model ----
(***************************************************************************)
(* TrueConnect (src/main.py): the follower/following analyser and the      *)
(* three-column paginated PDF report.                                      *)
(*                                                                         *)
(* Text is a tuple of code points, so that Python's lexicographic order    *)
(* and the latin-1 'replace' codec are computed and not assumed.           *)
(* Vertical positions are millimetres; horizontal positions are in units   *)
(* of 1/num_cols mm so that col_width = page_width / 3 is an integer.      *)
(* The page geometry is FPDF()'s default (A4 portrait, unit mm), in whole   *)
(* millimetres: 210 x 297, margins 10, automatic page break 20 above the   *)
(* bottom edge.                                                            *)
(***************************************************************************)
EXTENDS Integers, Sequences, FiniteSets, TLC

VARIABLES
    pc,                  \* position of the program
    followers_file,      \* what the followers path resolves to
    following_file,      \* what the following path resolves to
    error,               \* the exception raised, "none" if none
    exit_code,           \* process exit status, -1 while running
    not_following_back,  \* first result set of analyze_instagram_data
    fans,                \* second result set
    pdf,                 \* FPDF cursor: [page, x, y]
    doc,                 \* draw operations sent to the document, in order
    blk,                 \* which draw_list_in_columns call is active (1, 2)
    call_pdf,            \* the cursor when the active call was made
    start_y,             \* start_y of the active call (line 112)
    sorted_users,        \* sorted_users of the active call (line 117)
    idx,                 \* number of loop iterations done (enumerate's i)
    page_item_index,     \* page-local item index (line 115)
    current_y,           \* current_y (line 113)
    report               \* "none", "saved" or "failed"

vars == <<pc, followers_file, following_file, error, exit_code,
          not_following_back, fans, pdf, doc, blk, call_pdf, start_y,
          sorted_users, idx, page_item_index, current_y, report>>

-----------------------------------------------------------------------------
(* Bounds of the model *)

MaxUsers == 104     \* largest first list of the rendering specification
MaxFans == 9        \* largest second list of the rendering specification
LongList == 217     \* a first list that fills two pages and starts a third
NumLetters == 13    \* Latin letters of the alphabet names are drawn from
LetterA == 97       \* code point of the first of these letters
MaxRecs == 2        \* longest record sequence of an input document

-----------------------------------------------------------------------------
(* Text *)

Latin1Max == 255
QuestionMark == 63
Hyphen == 45
Space == 32
NonLatin1 == Latin1Max + 1

\* the alphabet: NumLetters Latin letters, then two code points that
\* latin-1 cannot encode
AlphabetSize == NumLetters + 2

Alpha(k) == IF k <= NumLetters THEN LetterA + k - 1 ELSE NonLatin1 + (k - NumLetters - 1)

\* the k-th username (k >= 0): pairwise distinct, not in sorted order
NameOf(k) ==
    IF k < AlphabetSize
    THEN <<Alpha(k + 1)>>
    ELSE <<Alpha((k % AlphabetSize) + 1),
           Alpha((((k \div AlphabetSize) - 1) % AlphabetSize) + 1)>>

\* Python's str order: by code point, a proper prefix first
LexLess(a, b) ==
    \E k \in 1..Len(b) :
        /\ \A j \in 1..(k - 1) : j <= Len(a) /\ a[j] = b[j]
        /\ k - 1 <= Len(a)
        /\ (k > Len(a) \/ a[k] < b[k])

\* s.encode('latin-1', 'replace').decode('latin-1')
Latin1Replace(s) == [k \in 1..Len(s) |-> IF s[k] > Latin1Max THEN QuestionMark ELSE s[k]]

\* f"- {user}" sanitised
safe_user(user) == Latin1Replace(<<Hyphen, Space>> \o user)

\* faulty variant of sorted: descending order
SortDescending(S) ==
    LET ranked == {<<Cardinality({y \in S : LexLess(x, y)}), x>> : x \in S}
    IN  [k \in 1..Cardinality(S) |-> (CHOOSE p \in ranked : p[1] = k - 1)[2]]

\* sorted(list(user_list)): each element goes to the position given by
\* the number of elements below it
sorted(S) ==
    LET ranked == {<<Cardinality({y \in S : LexLess(y, x)}), x>> : x \in S}
    IN  [k \in 1..Cardinality(S) |-> (CHOOSE p \in ranked : p[1] = k - 1)[2]]

-----------------------------------------------------------------------------
(* The document writer (FPDF) as draw_list_in_columns uses it *)

num_cols == 3
line_height == 7
TitleHeight == 10
HeaderHeight == 10
LogoMissingGap == 10
HeaderGap == 15
BlockGap == 8
TitleIndent == 5

PageW == 210
PageH == 297
l_margin == 10
r_margin == 10
t_margin == 10
b_margin == 20

\* pdf.w - pdf.l_margin - pdf.r_margin
page_width == PageW - l_margin - r_margin
\* page_width / 3, in x units (1/3 mm)
col_width == page_width
XUnit == num_cols
\* FPDF's automatic page-break trigger
page_break_trigger == PageH - b_margin
\* pdf.h - pdf.b_margin - line_height
BottomBound == PageH - b_margin - line_height

NoGhost == [blk |-> 0, col |-> 0, row |-> 0, cand_y |-> 0, page_before |-> 0]

add_page(p) == [page |-> p.page + 1, x |-> XUnit * l_margin, y |-> t_margin]

ln(p, h) == [p EXCEPT !.x = XUnit * l_margin, !.y = p.y + h]

set_y(p, y) == [p EXCEPT !.x = XUnit * l_margin, !.y = y]

set_xy(p, x, y) == [p EXCEPT !.x = x, !.y = y]

\* FPDF.cell(w, h, txt, 0, ln): breaks the page first when the cell would
\* cross the trigger, draws at the cursor, then moves right (ln = 0) or
\* to the start of the next line (ln = 1).  s = [pdf, doc].
cell(s, w, h, txt, newline, op, ghost) ==
    LET p0 == s.pdf
        p1 == IF p0.y + h > page_break_trigger
              THEN [add_page(p0) EXCEPT !.x = p0.x]
              ELSE p0
        ww == IF w = 0 THEN XUnit * (PageW - r_margin) - p1.x ELSE w
        p2 == IF newline = 1
              THEN [p1 EXCEPT !.x = XUnit * l_margin, !.y = p1.y + h]
              ELSE [p1 EXCEPT !.x = p1.x + ww]
        d  == [op |-> op, page |-> p1.page, x |-> p1.x, y |-> p1.y, h |-> h,
               txt |-> txt, blk |-> ghost.blk, col |-> ghost.col,
               row |-> ghost.row, cand_y |-> ghost.cand_y,
               page_before |-> ghost.page_before]
    IN  [pdf |-> p2, doc |-> Append(s.doc, d)]

-----------------------------------------------------------------------------
(* Input documents *)

\* a file path resolves to nothing (empty input), a missing file, a file
\* that is not JSON, or a decoded document: a plain list of records
\* ("list"), an object holding the list under "relationships_following"
\* ("keyed"), or an object holding it under another name ("unkeyed")
File(kind, shape, recs) == [kind |-> kind, shape |-> shape, recs |-> recs]

NoPath == File("nopath", "none", <<>>)
Missing == File("missing", "none", <<>>)
Undecodable == File("undecodable", "none", <<>>)

ValidRecord(u) == [string_list_data |-> <<[value |-> u]>>]
NoKeyRecord == [title |-> <<>>]
EmptyListRecord == [string_list_data |-> <<>>]

SmallUsers == {NameOf(0), NameOf(1), NameOf(2)}
SmallRecords == {ValidRecord(u) : u \in SmallUsers} \cup {NoKeyRecord, EmptyListRecord}
SmallRecSeqs == UNION {[1..n -> SmallRecords] : n \in 0..MaxRecs}
Shapes == {"list", "keyed", "unkeyed"}
SmallFiles ==
    {NoPath, Missing, Undecodable}
        \cup {File("json", sh, rs) : sh \in Shapes, rs \in SmallRecSeqs}

\* the export of an account following NameOf(0 .. n1-1) and one more
\* account, which follows back, and followed by n2 further accounts
BigFollowing(n1, n2) ==
    File("json", "keyed", [k \in 1..(n1 + 1) |-> ValidRecord(NameOf(IF k <= n1 THEN k - 1 ELSE n1 + n2))])
BigFollowers(n1, n2) ==
    File("json", "list", [k \in 1..(n2 + 1) |-> ValidRecord(NameOf(n1 + k - 1))])

-----------------------------------------------------------------------------
(* _extract_usernames and analyze_instagram_data *)

\* one iteration of the loop of _extract_usernames: the username the item
\* adds, or nothing when the lookup raises KeyError or IndexError
ExtractItem(item) ==
    IF "string_list_data" \notin DOMAIN item THEN {}          \* KeyError
    ELSE IF Len(item.string_list_data) < 1 THEN {}            \* IndexError
    ELSE IF "value" \notin DOMAIN item.string_list_data[1] THEN {}  \* KeyError
    ELSE {item.string_list_data[1].value}

\* faulty variant of ItemsList: takes the records whatever the shape
ItemsListLenient(data, keyed) == [error |-> "none", items |-> data.recs]

\* items_list = data.get(key, []) if key else data, with the exception the
\* expression or the iteration raises on a document of the other type
ItemsList(data, keyed) ==
    IF keyed
    THEN IF data.shape = "list"
         THEN [error |-> "AttributeError", items |-> <<>>]   \* list has no .get
         ELSE IF data.shape = "keyed"
              THEN [error |-> "none", items |-> data.recs]
              ELSE [error |-> "none", items |-> <<>>]        \* the default []
    ELSE IF data.shape = "list"
         THEN [error |-> "none", items |-> data.recs]
         ELSE [error |-> "TypeError", items |-> <<>>]        \* iterates the keys, str["..."]

_extract_usernames(data, keyed) ==
    LET il == ItemsList(data, keyed)
    IN  [error |-> il.error,
         usernames |-> UNION {ExtractItem(il.items[k]) : k \in 1..Len(il.items)}]

\* faulty variant of SetDifference: operands exchanged
SetDifferenceSwapped(a, b) == b \ a

\* lines 56-57
SetDifference(a, b) == a \ b

LoadError(f) ==
    IF f.kind = "missing" THEN "FileNotFoundError"
    ELSE IF f.kind = "undecodable" THEN "ValueError"
    ELSE "none"

Raise(e) == [error |-> e, not_following_back |-> {}, fans |-> {}]

analyze_instagram_data(ff, gf) ==
    IF LoadError(ff) # "none" THEN Raise(LoadError(ff))
    ELSE IF LoadError(gf) # "none" THEN Raise(LoadError(gf))
    ELSE LET followers == _extract_usernames(ff, FALSE)
             following == _extract_usernames(gf, TRUE)
         IN  IF followers.error # "none" THEN Raise(followers.error)
             ELSE IF following.error # "none" THEN Raise(following.error)
             ELSE [error |-> "none",
                   not_following_back |-> SetDifference(following.usernames, followers.usernames),
                   fans |-> SetDifference(followers.usernames, following.usernames)]

-----------------------------------------------------------------------------
(* The loop of draw_list_in_columns *)

\* line 120
col_index_of(i) == i % num_cols

\* faulty variant of row_index_of: a new row for every item
RowPerItem(i) == i

\* line 121
row_index_of(i) == i \div num_cols

\* faulty variant of PageBreakNeeded: tests the row below
PageBreakOneRowEarly(cy, row) == cy + ((row + 1) * line_height) > BottomBound

\* line 123
PageBreakNeeded(cy, row) == cy + (row * line_height) > BottomBound

\* faulty variant of BreakState: page_item_index is not reset
BreakStateKeepIndex(p, cy, pii) ==
    [pdf |-> add_page(p), current_y |-> t_margin, page_item_index |-> pii]

\* faulty variant of BreakState: add_page is not called
BreakStateSamePage(p, cy, pii) ==
    [pdf |-> p, current_y |-> t_margin, page_item_index |-> 0]

\* lines 124-126: the state after the page break, from the state before
BreakState(p, cy, pii) ==
    [pdf |-> add_page(p), current_y |-> t_margin, page_item_index |-> 0]

\* faulty variant of draw_none: the cell does not end the line
draw_none_no_newline(s, g) == cell(s, 0, line_height, <<>>, 0, "none", g)

\* lines 103-105: the "None." line of an empty list
draw_none(s, g) == cell(s, 0, line_height, <<>>, 1, "none", g)

\* faulty variant of BlockEndY: one line height
BlockEndOneLine(y) == y + line_height

\* line 135
BlockEndY(y) == y + line_height * 2

user_list == IF blk = 1 THEN not_following_back ELSE fans

-----------------------------------------------------------------------------
(* Initial states *)

NoCursor == [page |-> 0, x |-> 0, y |-> 0]

InitRest ==
    /\ pc = "prompt"
    /\ error = "none"
    /\ exit_code = -1
    /\ not_following_back = {}
    /\ fans = {}
    /\ pdf = NoCursor
    /\ doc = <<>>
    /\ blk = 0
    /\ call_pdf = NoCursor
    /\ start_y = 0
    /\ sorted_users = <<>>
    /\ idx = 0
    /\ page_item_index = 0
    /\ current_y = 0
    /\ report = "none"

Init ==
    /\ followers_file \in SmallFiles
    /\ following_file \in SmallFiles
    /\ InitRest

InitRender ==
    /\ \E n1 \in (0..MaxUsers) \cup {LongList}, n2 \in 0..MaxFans :
          /\ followers_file = BigFollowers(n1, n2)
          /\ following_file = BigFollowing(n1, n2)
    /\ InitRest

-----------------------------------------------------------------------------
(* main *)

render_vars == <<pdf, doc, blk, call_pdf, start_y, sorted_users, idx,
                 page_item_index, current_y, report>>

\* lines 164-172: the two prompts; an empty path exits with status 1
Prompts ==
    /\ pc = "prompt"
    /\ IF followers_file.kind = "nopath" \/ following_file.kind = "nopath"
       THEN /\ pc' = "exit"
            /\ exit_code' = 1
            /\ error' = "SystemExit"
       ELSE /\ pc' = "analyze"
            /\ UNCHANGED <<exit_code, error>>
    /\ UNCHANGED <<followers_file, following_file, not_following_back, fans>>
    /\ UNCHANGED render_vars

\* lines 175-191 and 207-213: the call of analyze_instagram_data; the
\* handled errors exit with status 1, the others end the process with a
\* traceback and status 1
Analyze ==
    /\ pc = "analyze"
    /\ LET r == analyze_instagram_data(followers_file, following_file)
       IN  /\ error' = r.error
           /\ not_following_back' = r.not_following_back
           /\ fans' = r.fans
           /\ IF r.error = "none"
              THEN pc' = "choice" /\ UNCHANGED exit_code
              ELSE pc' = "exit" /\ exit_code' = 1
    /\ UNCHANGED <<followers_file, following_file>>
    /\ UNCHANGED render_vars

\* lines 201-203
ChooseNo ==
    /\ pc = "choice"
    /\ pc' = "exit"
    /\ exit_code' = 0
    /\ UNCHANGED <<followers_file, following_file, error, not_following_back, fans>>
    /\ UNCHANGED render_vars

input_vars == <<followers_file, following_file, not_following_back, fans>>

\* lines 197-198 and 71-91: create_pdf_report up to the first block
ChooseYes ==
    /\ pc = "choice"
    /\ \E logo \in BOOLEAN :
          LET p1 == add_page(pdf)
              s  == cell([pdf |-> p1, doc |-> doc], (XUnit * page_width * 7) \div 10,
                         HeaderHeight, <<>>, 0, "header", NoGhost)
              p2 == IF logo THEN s.pdf ELSE ln(s.pdf, LogoMissingGap)
          IN  /\ pdf' = ln(p2, HeaderGap)
              /\ doc' = s.doc
    /\ blk' = 1
    /\ pc' = "call"
    /\ UNCHANGED <<error, exit_code, call_pdf, start_y, sorted_users, idx,
                   page_item_index, current_y, report>>
    /\ UNCHANGED input_vars

\* lines 95-117: marker, title, and the "None." line of an empty list
BeginBlock ==
    /\ pc = "call"
    /\ LET marker == [op |-> "ellipse", page |-> pdf.page, x |-> pdf.x, y |-> pdf.y,
                      h |-> 0, txt |-> <<>>, blk |-> blk, col |-> 0, row |-> 0,
                      cand_y |-> 0, page_before |-> 0]
           p1 == [pdf EXCEPT !.x = pdf.x + XUnit * TitleIndent]
           g  == [NoGhost EXCEPT !.blk = blk]
           s1 == cell([pdf |-> p1, doc |-> Append(doc, marker)], 0, TitleHeight,
                      <<Cardinality(user_list)>>, 1, "title", g)
           s2 == draw_none(s1, g)
       IN  IF user_list = {}
           THEN /\ pdf' = s2.pdf
                /\ doc' = s2.doc
                /\ pc' = "returned"
                /\ UNCHANGED <<start_y, current_y, page_item_index, sorted_users, idx>>
           ELSE /\ pdf' = s1.pdf
                /\ doc' = s1.doc
                /\ start_y' = s1.pdf.y
                /\ current_y' = s1.pdf.y
                /\ page_item_index' = 0
                /\ sorted_users' = sorted(user_list)
                /\ idx' = 0
                /\ pc' = "loop"
    /\ call_pdf' = pdf
    /\ UNCHANGED <<error, exit_code, blk, report>>
    /\ UNCHANGED input_vars

\* lines 119-133: one iteration of the loop
PlaceEntry ==
    /\ pc = "loop"
    /\ idx < Len(sorted_users)
    /\ LET user == sorted_users[idx + 1]
           row0 == row_index_of(page_item_index)
           brk == PageBreakNeeded(current_y, row0)
           st == IF brk
                 THEN BreakState(pdf, current_y, page_item_index)
                 ELSE [pdf |-> pdf, current_y |-> current_y,
                       page_item_index |-> page_item_index]
           p1 == st.pdf
           cy == st.current_y
           pii == st.page_item_index
           col == col_index_of(pii)
           row == row_index_of(pii)
           p2 == set_xy(p1, XUnit * l_margin + (col * col_width), cy + (row * line_height))
           g  == [blk |-> blk, col |-> col, row |-> row,
                  cand_y |-> current_y + (row0 * line_height),
                  page_before |-> pdf.page]
           s  == cell([pdf |-> p2, doc |-> doc], col_width, line_height,
                      safe_user(user), 0, "entry", g)
       IN  /\ pdf' = s.pdf
           /\ doc' = s.doc
           /\ current_y' = cy
           /\ page_item_index' = pii + 1
    /\ idx' = idx + 1
    /\ UNCHANGED <<pc, error, exit_code, blk, call_pdf, start_y, sorted_users, report>>
    /\ UNCHANGED input_vars

\* line 135: the cursor moves two lines below the last cell
FinishBlock ==
    /\ pc = "loop"
    /\ idx = Len(sorted_users)
    /\ pdf' = set_y(pdf, BlockEndY(pdf.y))
    /\ pc' = "returned"
    /\ UNCHANGED <<error, exit_code, doc, blk, call_pdf, start_y, sorted_users, idx,
                   page_item_index, current_y, report>>
    /\ UNCHANGED input_vars

\* line 138: the gap before the second block
NextBlock ==
    /\ pc = "returned"
    /\ blk = 1
    /\ pdf' = ln(pdf, BlockGap)
    /\ blk' = 2
    /\ pc' = "call"
    /\ UNCHANGED <<error, exit_code, doc, call_pdf, start_y, sorted_users, idx,
                   page_item_index, current_y, report>>
    /\ UNCHANGED input_vars

\* lines 142-157 and 199-200: the document is written, or IOError ends
\* the process
Save ==
    /\ pc = "returned"
    /\ blk = 2
    /\ \E ok \in BOOLEAN :
          IF ok
          THEN report' = "saved" /\ exit_code' = 0 /\ error' = "none"
          ELSE report' = "failed" /\ exit_code' = 1 /\ error' = "IOError"
    /\ pc' = "exit"
    /\ UNCHANGED <<pdf, doc, blk, call_pdf, start_y, sorted_users, idx,
                   page_item_index, current_y>>
    /\ UNCHANGED input_vars

Next ==
    \/ Prompts
    \/ Analyze
    \/ ChooseNo
    \/ ChooseYes
    \/ BeginBlock
    \/ PlaceEntry
    \/ FinishBlock
    \/ NextBlock
    \/ Save

Spec == Init /\ [][Next]_vars

SpecRender == InitRender /\ [][Next]_vars

-----------------------------------------------------------------------------
(* Reading the document back *)

IsEntryOf(d, b) == d.op = "entry" /\ d.blk = b

Entries(b) == SelectSeq(doc, LAMBDA d : IsEntryOf(d, b))

OpsOf(b) == SelectSeq(doc, LAMBDA d : d.blk = b)

\* the text of a placed entry without its "- " prefix
ReadBack(b) ==
    LET e == Entries(b)
    IN  [k \in 1..Len(e) |-> SubSeq(e[k].txt, 3, Len(e[k].txt))]

\* s lists the elements of L once each, in ascending order
IsSortedOf(s, L) ==
    /\ Len(s) = Cardinality(L)
    /\ {s[k] : k \in 1..Len(s)} = L
    /\ \A k \in 1..(Len(s) - 1) : LexLess(s[k], s[k + 1])

Latin1Only(L) == \A u \in L : \A k \in 1..Len(u) : u[k] <= Latin1Max

Returned == pc = "returned"

\* block b started a new page while placing its entries
BrokeInLoop(b) == \E k \in 1..Len(doc) : IsEntryOf(doc[k], b) /\ doc[k].page > doc[k].page_before

\* block b started two new pages while placing its entries
BrokeTwiceInLoop(b) ==
    \E j, k \in 1..Len(doc) :
        /\ j < k
        /\ IsEntryOf(doc[j], b) /\ doc[j].page > doc[j].page_before
        /\ IsEntryOf(doc[k], b) /\ doc[k].page > doc[k].page_before

\* C1 as stated: when a block returns, the entries read back from the
\* document in draw order are the sorted entry list itself.
C1_ReadBackIsSortedList ==
    Returned => IsSortedOf(ReadBack(blk), user_list)

\* C1 amended: when a block returns, sorted_users is the entry list in
\* ascending order without repetition, the document holds one entry cell
\* per element of it, in that order, whose text is the Latin-1
\* sanitisation of "- " + entry; read back, the texts are the sorted list
\* itself when every entry is Latin-1 representable.
C1_ReadBackIsSanitisedSortedList ==
    Returned =>
        LET e == Entries(blk)
        IN  /\ Len(e) = Cardinality(user_list)
            /\ user_list # {} =>
                  /\ IsSortedOf(sorted_users, user_list)
                  /\ \A k \in 1..Len(e) : e[k].txt = safe_user(sorted_users[k])
            /\ Latin1Only(user_list) => IsSortedOf(ReadBack(blk), user_list)

C1_Witness ==
    /\ Returned
    /\ blk = 1
    /\ pdf.page = 3
    /\ ~Latin1Only(user_list)
    /\ BrokeTwiceInLoop(1)

\* C2: an entry whose candidate Y exceeds the bottom bound is placed on
\* the next page at column 0, row 0 (X = left margin, Y = top margin),
\* and the entry after it goes to column 1, row 0 of that page.
C2_BreakingEntryStartsNewPage ==
    \A k \in 1..Len(doc) :
        (doc[k].op = "entry" /\ doc[k].cand_y > BottomBound) =>
            /\ doc[k].page = doc[k].page_before + 1
            /\ doc[k].col = 0 /\ doc[k].row = 0
            /\ doc[k].x = XUnit * l_margin
            /\ doc[k].y = t_margin
            /\ (k = Len(doc) /\ pc = "loop") => page_item_index = 1
            /\ (k < Len(doc) /\ IsEntryOf(doc[k + 1], doc[k].blk)) =>
                  /\ doc[k + 1].page = doc[k].page
                  /\ doc[k + 1].col = 1 /\ doc[k + 1].row = 0
                  /\ doc[k + 1].x = XUnit * l_margin + col_width
                  /\ doc[k + 1].y = t_margin

C2_Witness ==
    \E k \in 1..(Len(doc) - 1) :
        /\ doc[k].op = "entry" /\ doc[k].cand_y > BottomBound
        /\ doc[k].blk = 2
        /\ IsEntryOf(doc[k + 1], 2)

\* C3: when the block of a non-empty list returns, the cursor is on the
\* page of the last entry, two line heights below it, and below every
\* entry of the block on that page; whatever the next block draws on a
\* page lies below every entry of the previous block on that page.
C3_CursorTwoLinesBelowLastRow ==
    /\ (Returned /\ user_list # {}) =>
          LET e == Entries(blk)
              last == e[Len(e)]
          IN  /\ pdf.page = last.page
              /\ pdf.y = last.y + 14
              /\ \A k \in 1..Len(e) :
                    e[k].page = pdf.page => e[k].y + line_height < pdf.y
    /\ blk = 2 =>
          \A k \in 1..Len(doc) :
              doc[k].blk = 2 =>
                  \A j \in 1..k :
                      (IsEntryOf(doc[j], 1) /\ doc[k].page = doc[j].page)
                          => doc[k].y >= doc[j].y + line_height
    /\ (blk = 2 /\ pc = "call") =>
          \A j \in 1..Len(doc) :
              (IsEntryOf(doc[j], 1) /\ doc[j].page = pdf.page) => pdf.y > doc[j].y + line_height

C3_Witness ==
    /\ Returned
    /\ blk = 2
    /\ user_list # {}
    /\ BrokeInLoop(1)
    /\ ~BrokeInLoop(2)
    /\ \E k \in 1..Len(doc) : doc[k].op = "title" /\ doc[k].blk = 2 /\ doc[k].page = 2

\* both lines of an empty block fit on the page of the call
NoneFits == call_pdf.y + TitleHeight + line_height <= page_break_trigger
\* the title of the block fits on the page of the call
TitleFits == call_pdf.y + TitleHeight <= page_break_trigger

\* C4 as stated: the block of an empty list leaves the cursor exactly two
\* line heights below where the call found it.
C4_EmptyAdvancesTwoLineHeights ==
    (Returned /\ user_list = {}) =>
        /\ pdf.page = call_pdf.page
        /\ pdf.y = call_pdf.y + 2 * line_height

\* C4 amended: the block of an empty list draws the marker, the title
\* and one "None." line and nothing else; the cursor ends 17 below the
\* call's position (title height 10 plus line height 7) when both lines
\* fit above the bottom margin, and otherwise on the next page below the
\* lines drawn there.
C4_EmptyDrawsTitleAndNone ==
    (Returned /\ user_list = {}) =>
        LET o == OpsOf(blk)
        IN  /\ Len(o) = 3
            /\ o[1].op = "ellipse" /\ o[2].op = "title" /\ o[3].op = "none"
            /\ o[2].txt = <<0>>
            /\ o[3].page = pdf.page /\ o[3].y + 7 = pdf.y
            /\ o[3].page = o[2].page => o[3].y = o[2].y + 10
            /\ pdf.x = XUnit * l_margin
            /\ IF NoneFits
               THEN pdf.page = call_pdf.page /\ pdf.y = call_pdf.y + 17
               ELSE /\ pdf.page = call_pdf.page + 1
                    /\ pdf.y = IF TitleFits THEN t_margin + 7 ELSE t_margin + 17

C4_Witness ==
    /\ Returned
    /\ user_list = {}
    /\ blk = 2
    /\ NoneFits
    /\ not_following_back # {}

\* the layout of eight entries without a page break: rows 0..2 of one
\* page, three entries in rows 0 and 1 and two in row 2
EightInThreeRows(b) ==
    LET e == Entries(b)
    IN  /\ Len(e) = 8
        /\ \A k \in 1..8 :
              /\ e[k].col = (k - 1) % 3
              /\ e[k].row = (k - 1) \div 3
              /\ e[k].page = e[1].page
              /\ e[k].y = e[1].y + 7 * e[k].row
        /\ ~\E k \in 1..8 : e[k].row = 2 /\ e[k].col = 2

\* C5 as stated: a block of 8 entries never breaks the page, whichever
\* block it is.
C5_EightNeverBreak ==
    (Returned /\ Cardinality(user_list) = 8) =>
        /\ pdf.page = call_pdf.page
        /\ EightInThreeRows(blk)

\* three rows fit below the title of the active block
ThreeRowsFit == TitleFits /\ start_y + 2 * line_height <= BottomBound

\* C5 amended: a block of 8 entries breaks no page and fills rows 0..2,
\* the last with two entries, exactly when its title fits on the page and
\* start_y + 2 * line_height is within the bottom bound; the first block
\* always satisfies that, a second block may not.
C5_EightBreakOnlyWhenTooLow ==
    (Returned /\ Cardinality(user_list) = 8) =>
        /\ ThreeRowsFit => (pdf.page = call_pdf.page /\ EightInThreeRows(blk))
        /\ ~ThreeRowsFit => pdf.page > call_pdf.page
        /\ blk = 1 => ThreeRowsFit

C5_Witness ==
    /\ Returned
    /\ blk = 2
    /\ Cardinality(user_list) = 8
    /\ ThreeRowsFit
    /\ start_y + 3 * line_height > BottomBound

\* C9: an entry that starts a new page is the first of its row (the entry
\* before it in the block is in column 2), and an entry in column 0 or 1
\* that is not the last of its block is followed in the same row of the
\* same page, so that only the last row of a block can be partial.
C9_BreakOnlyAtRowStart ==
    \A k \in 1..Len(doc) :
        doc[k].op = "entry" =>
            /\ (doc[k].page > doc[k].page_before /\ k > 1 /\ IsEntryOf(doc[k - 1], doc[k].blk))
                  => doc[k - 1].col = 2
            /\ (doc[k].col < 2 /\ k < Len(doc) /\ IsEntryOf(doc[k + 1], doc[k].blk))
                  => /\ doc[k + 1].page = doc[k].page
                     /\ doc[k + 1].row = doc[k].row
                     /\ doc[k + 1].y = doc[k].y
                     /\ doc[k + 1].col = doc[k].col + 1

C9_Witness ==
    \E k \in 2..Len(doc) :
        /\ doc[k].op = "entry" /\ doc[k].blk = 2
        /\ doc[k].page > doc[k].page_before
        /\ IsEntryOf(doc[k - 1], 2)

\* the page on which the entries of block b start
StartPage(b) == doc[CHOOSE k \in 1..Len(doc) : doc[k].op = "title" /\ doc[k].blk = b].page

\* C10: with t_margin within the bottom bound, every entry lies between
\* the top margin (start_y on the first page of its block) and the
\* bottom bound, so that it ends above the bottom margin; no entry starts
\* more than one page; no two entries of a block share a cell of a page.
C10_EntriesInsidePageAndApart ==
    t_margin <= BottomBound =>
        LET first_page == StartPage(blk)
        IN
        \A k \in 1..Len(doc) :
            doc[k].op = "entry" =>
                /\ doc[k].y <= BottomBound
                /\ doc[k].y + line_height <= PageH - b_margin
                /\ doc[k].y >= t_margin
                /\ (doc[k].blk = blk /\ doc[k].page = first_page) => doc[k].y >= start_y
                /\ doc[k].page - doc[k].page_before <= 1
                /\ doc[k].page >= doc[k].page_before
                /\ k = Len(doc) =>
                      \A j \in 1..(k - 1) :
                          (IsEntryOf(doc[j], doc[k].blk) /\ doc[j].page = doc[k].page)
                              => <<doc[j].col, doc[j].row>> # <<doc[k].col, doc[k].row>>

C10_Witness ==
    /\ pc = "loop"
    /\ blk = 1
    /\ pdf.page = 3
    /\ BrokeTwiceInLoop(1)
    /\ \E k \in 1..Len(doc) : IsEntryOf(doc[k], 1) /\ doc[k].page = StartPage(1) /\ doc[k].row = 1
                                  /\ doc[k].y > start_y
    /\ \E k \in 1..Len(doc) : IsEntryOf(doc[k], 1) /\ doc[k].page > StartPage(1) /\ doc[k].col = 2

-----------------------------------------------------------------------------
(* The analysis *)

\* the record has a value at record["string_list_data"][0]["value"]
HasPath(r) ==
    /\ "string_list_data" \in DOMAIN r
    /\ Len(r.string_list_data) >= 1
    /\ "value" \in DOMAIN r.string_list_data[1]

\* the values at that path of the records of a document
Vals(f) == {f.recs[k].string_list_data[1].value : k \in {j \in 1..Len(f.recs) : HasPath(f.recs[j])}}

AnalyzeErrors == {"FileNotFoundError", "ValueError", "TypeError", "AttributeError"}

\* analyze_instagram_data has been called and has returned or raised
AnalyzeRan ==
    /\ pc \notin {"prompt", "analyze"}
    /\ followers_file.kind # "nopath"
    /\ following_file.kind # "nopath"

BothDecoded == followers_file.kind = "json" /\ following_file.kind = "json"

\* the two sets are the differences of the values found in the records
SetsFromRecords ==
    /\ error \notin AnalyzeErrors
    /\ not_following_back = Vals(following_file) \ Vals(followers_file)
    /\ fans = Vals(followers_file) \ Vals(following_file)

\* the call raised e: no sets, no report, exit status 1
Raised(e) ==
    /\ error = e
    /\ not_following_back = {} /\ fans = {}
    /\ report = "none"
    /\ pc = "exit" /\ exit_code = 1

\* C6: for a followers list and a following container, analyze returns
\* (following - followers, followers - following) over the values of the
\* records that have the path; records without it are skipped silently.
C6_SetDifferencesOfExtractedValues ==
    (AnalyzeRan /\ BothDecoded /\ followers_file.shape = "list"
                /\ following_file.shape = "keyed") => SetsFromRecords

C6_Witness ==
    /\ pc = "choice"
    /\ followers_file.shape = "list" /\ following_file.shape = "keyed"
    /\ \E k \in 1..Len(followers_file.recs) : "string_list_data" \notin DOMAIN followers_file.recs[k]
    /\ \E k \in 1..Len(following_file.recs) : following_file.recs[k] = EmptyListRecord
    /\ not_following_back = {NameOf(1)}
    /\ fans = {NameOf(0)}

BadDocument(f) == f.kind \in {"missing", "undecodable"} \/ f.shape = "unkeyed"

\* C8: if either document is missing, undecodable or of the wrong shape,
\* analyze raises, no sets are returned, no report is produced and the
\* process exits non-zero.
C8_BadDocumentRaises ==
    (AnalyzeRan /\ (BadDocument(followers_file) \/ BadDocument(following_file))) =>
        /\ error \in AnalyzeErrors
        /\ not_following_back = {} /\ fans = {}
        /\ report = "none"
        /\ pc = "exit" /\ exit_code # 0

====
